---- MODULE Spec2Model ----
(***************************************************************************)
(* Model of the Spotify follow gate.  Three deployments of the same        *)
(* script are modelled side by side:                                       *)
(*   "inline"   src/server.js lines 1-116    artist only, inline pages     *)
(*   "ap"       src/server.js lines 118-632  artist + playlist, /follow    *)
(*   "redirect" src/unnamed/part_000         artist only, redirect URLs    *)
(* One browser talks to one server; the remote service (Spotify) answers   *)
(* each outbound call with one of the outcomes it can produce.             *)
(***************************************************************************)
EXTENDS Integers, Sequences, FiniteSets, TLC

VARIABLES variant, cookie, follows, visible, artistIdFollows,
          req, pc, accessToken, artistInfo, userId, calls, resp,
          proc, env, playlistId, silent, lastIssued, prevIssued, logged,
          followRuns, followsBefore

\* The state tokens the two most recent /login requests issued.
issued == <<lastIssued, prevIssued>>

\* The process: its life cycle, its environment and the playlist id it
\* settled on at startup.
startup == <<proc, env, playlistId>>

vars == <<variant, cookie, follows, visible, artistIdFollows,
          req, pc, accessToken, artistInfo, userId, calls, resp,
          proc, env, playlistId, silent, lastIssued, prevIssued, logged,
          followRuns, followsBefore>>

\* ---------------------------------------------------------------- values

\* JavaScript's undefined: an absent query parameter, cookie or field.
Undefined == "<undefined>"

Variants == {"inline", "ap", "redirect"}

\* Configuration values, kept symbolic.
REDIRECT_URI == "REDIRECT_URI"
ARTIST_ID == "ARTIST_ID"
SUCCESS_REDIRECT_URL == "SUCCESS_REDIRECT_URL"
FAILURE_REDIRECT_URL == "FAILURE_REDIRECT_URL"
SPOTIFY_AUTH_URL == "https://accounts.spotify.com/authorize"
CLIENT_SECRET == "CLIENT_SECRET"

\* 'Basic ' + Buffer.from(CLIENT_ID + ':' + CLIENT_SECRET).toString('base64')
BasicAuth == "Basic base64(CLIENT_ID:CLIENT_SECRET)"

\* The id the remote service reports for the authenticated user.
CurrentUser == "user"

\* How many distinct anti-forgery tokens and authorization codes occur.
MaxStateTokens == 2
MaxCodes == 2

\* /follow requests whose two follow mutations both succeeded are counted up
\* to this many.
MaxFollowRuns == 2

StateTokens == {"s" \o ToString(i) : i \in 1..MaxStateTokens}
AuthCodes == {"c" \o ToString(i) : i \in 1..MaxCodes}

\* Values the `state`, `code`, `error` and `access_token` query parameters
\* take in the model.
QueryStates == {Undefined, ""} \cup StateTokens
QueryCodes == {Undefined, ""} \cup AuthCodes
QueryErrors == {Undefined, "access_denied"}
QueryTokens == {Undefined, "", "tok", "bad"}

\* JavaScript truthiness of a string-or-undefined value.
Truthy(v) == v # Undefined /\ v # ""

\* Math.random().toString(36).substring(7): a short base-36 string, empty
\* when the random number has a short expansion (0.5 is "0.i").
ShortRandomStates == {""} \cup StateTokens

\* generateRandomString(16): sixteen alphanumeric characters, never empty.
generateRandomString == StateTokens

LoginStates(v) == IF v = "ap" THEN generateRandomString ELSE ShortRandomStates

\* ------------------------------------------------------------- responses

NoResp == [kind |-> "none", to |-> "-", details |-> "-", status |-> 0]
Redirect(target) == [kind |-> "redirect", to |-> target, details |-> "-", status |-> 302]
RedirectDetails(target, d) == [kind |-> "redirect", to |-> target, details |-> d, status |-> 302]
Page(name) == [kind |-> "page", to |-> name, details |-> "-", status |-> 200]
Json(st, err, d) == [kind |-> "json", to |-> err, details |-> d, status |-> st]

\* ---------------------------------------------------------- remote calls

NoReq == [route |-> "none", code |-> Undefined, state |-> Undefined,
          error |-> Undefined, storedState |-> Undefined,
          access_token |-> Undefined]

\* One outbound call: what was asked and, once answered, the answer.
\*   ids : the principal a followers/contains query is keyed on
\*   ans : "pending", "ok", "fail", "true" or "false"
\*   cur : for a follow-status query, what the remote service held for the
\*         current user when it answered
Call(name, c, g, r, a, i) ==
    [call |-> name, code |-> c, grant_type |-> g, redirect_uri |-> r,
     auth |-> a, ids |-> i, ans |-> "pending", cur |-> "-"]

\* new URLSearchParams({code: code, ...}): an undefined value is sent as the
\* text "undefined".
FormValue(v) == IF v = Undefined THEN "undefined" ELSE v

\* `Bearer ${accessToken}`
Bearer(t) == "Bearer " \o FormValue(t)

\* A token request that leaves the authorization code out of the form.
TokenCall_noCode(c) ==
    Call("token", "undefined", "authorization_code", REDIRECT_URI, BasicAuth, "-")

TokenCall(c) == Call("token", FormValue(c), "authorization_code", REDIRECT_URI, BasicAuth, "-")
ArtistInfoCall(t) == Call("artistInfo", "-", "-", "-", Bearer(t), "-")
ArtistCheckCall(t) == Call("artistCheck", "-", "-", "-", Bearer(t), "-")
PlaylistCheckCall(t, who) == Call("playlistCheck", "-", "-", "-", Bearer(t), who)
PlaylistMetaCall(t) == Call("playlistMeta", "-", "-", "-", Bearer(t), "-")
MeCall(t) == Call("me", "-", "-", "-", Bearer(t), "-")
PutArtistCall(t) == Call("putArtist", "-", "-", "-", Bearer(t), "-")
PutPlaylistCall(t) == Call("putPlaylist", "-", "-", "-", Bearer(t), "-")

\* --------------------------------------------------------------- startup

\* The environment variables each script reads into its constants (PORT
\* aside).
EnvVarsRead(v) ==
    CASE v = "inline" -> {"CLIENT_ID", "CLIENT_SECRET", "REDIRECT_URI", "ARTIST_ID"}
      [] v = "redirect" -> {"CLIENT_ID", "CLIENT_SECRET", "REDIRECT_URI", "ARTIST_ID",
                            "SUCCESS_REDIRECT_URL", "FAILURE_REDIRECT_URL"}
      [] OTHER -> {"CLIENT_ID", "CLIENT_SECRET", "REDIRECT_URI", "ARTIST_ID",
                   "PLAYLIST_ID", "SUCCESS_REDIRECT_URL", "FAILURE_REDIRECT_URL"}

\* A validation list that forgets the artist id.
requiredEnvVars_noArtist(v) ==
    CASE v = "inline" -> {"CLIENT_ID", "CLIENT_SECRET", "REDIRECT_URI"}
      [] v = "redirect" -> {"CLIENT_ID", "CLIENT_SECRET", "REDIRECT_URI",
                            "SUCCESS_REDIRECT_URL", "FAILURE_REDIRECT_URL"}
      [] OTHER -> {"CLIENT_ID", "CLIENT_SECRET", "REDIRECT_URI",
                   "PLAYLIST_ID", "SUCCESS_REDIRECT_URL", "FAILURE_REDIRECT_URL"}

\* const requiredEnvVars = [...]
requiredEnvVars(v) ==
    CASE v = "inline" -> {"CLIENT_ID", "CLIENT_SECRET", "REDIRECT_URI", "ARTIST_ID"}
      [] v = "redirect" -> {"CLIENT_ID", "CLIENT_SECRET", "REDIRECT_URI", "ARTIST_ID",
                            "SUCCESS_REDIRECT_URL", "FAILURE_REDIRECT_URL"}
      [] OTHER -> {"CLIENT_ID", "CLIENT_SECRET", "REDIRECT_URI", "ARTIST_ID",
                   "PLAYLIST_ID", "SUCCESS_REDIRECT_URL", "FAILURE_REDIRECT_URL"}

\* requiredEnvVars.filter(envVar => !process.env[envVar])
missingEnvVars(v, e) == requiredEnvVars(v) \ e

\* process.env.PLAYLIST_ID || '22UjtzmKbo9WLSLqfvx2PR'
DefaultPlaylistId == "22UjtzmKbo9WLSLqfvx2PR"
PLAYLIST_ID(e) == IF "PLAYLIST_ID" \in e THEN "PLAYLIST_ID" ELSE DefaultPlaylistId

\* The script runs from its first line to app.listen: process.exit(1) when a
\* required variable is missing, a bound port otherwise.
Start ==
    /\ proc = "starting"
    /\ IF missingEnvVars(variant, env) # {}
       THEN /\ proc' = "exit(1)"
            /\ UNCHANGED playlistId
       ELSE /\ proc' = "listening"
            /\ playlistId' = IF variant = "ap" THEN PLAYLIST_ID(env) ELSE Undefined
    /\ UNCHANGED <<variant, cookie, follows, visible, artistIdFollows, req, pc,
                   accessToken, artistInfo, userId, calls, resp, env, silent>>
    /\ UNCHANGED issued
    /\ UNCHANGED logged
    /\ UNCHANGED followRuns
    /\ UNCHANGED followsBefore

\* ------------------------------------------------------------------ Init

Resources == {"artist", "playlist"}

\* let artistInfo: the fields of the artist record the handler reads.
NoArtistInfo == [id |-> Undefined, images |-> FALSE]

Init ==
    /\ variant \in Variants
    /\ cookie = Undefined
    /\ follows \in [Resources -> BOOLEAN]
    /\ visible = follows
    /\ artistIdFollows \in BOOLEAN
    /\ req = NoReq
    /\ pc = "idle"
    /\ accessToken = Undefined
    /\ artistInfo = NoArtistInfo
    /\ userId = Undefined
    /\ calls = <<>>
    /\ resp = NoResp
    /\ proc = "starting"
    /\ env \in SUBSET EnvVarsRead(variant)
    /\ playlistId = Undefined
    /\ silent = FALSE
    /\ lastIssued = Undefined
    /\ prevIssued = Undefined
    /\ logged = {}
    /\ followRuns = 0
    /\ followsBefore = follows

\* A new request may start once the server listens and the previous request
\* has been answered.
Ready == proc = "listening" /\ pc \in {"idle", "done"}

\* res.redirect / res.send / res.json: the response reaches the browser,
\* together with the Set-Cookie header of a preceding res.clearCookie.
Respond(r, clear) ==
    /\ resp' = r
    /\ pc' = "done"
    /\ cookie' = IF clear THEN Undefined ELSE cookie

\* console.log / console.error: the values written while the current request
\* is handled.
Log(values) == logged' = logged \cup (values \ {Undefined})

\* --------------------------------------------------------------- /login

\* A cookie that is only set when the browser holds none.
SetCookie_keepFirst(old, value) == IF old # Undefined THEN old ELSE value

\* res.cookie('spotify_auth_state', state): the browser replaces the cookie.
SetCookie(old, value) == value

Login ==
    /\ Ready
    /\ \E s \in LoginStates(variant) :
          /\ cookie' = SetCookie(cookie, s)
          /\ resp' = RedirectDetails(SPOTIFY_AUTH_URL, s)
          /\ lastIssued' = s
          /\ prevIssued' = lastIssued
    /\ req' = [NoReq EXCEPT !.route = "login"]
    /\ pc' = "done"
    /\ calls' = <<>>
    /\ accessToken' = Undefined
    /\ artistInfo' = NoArtistInfo
    /\ userId' = Undefined
    /\ followsBefore' = follows
    /\ UNCHANGED <<variant, follows, visible, artistIdFollows>>
    /\ UNCHANGED startup
    /\ UNCHANGED silent
    /\ logged' = {}
    /\ UNCHANGED followRuns

\* ------------------------------------------------------------- failures

\* What a catch block can see of a thrown error: error.response?.status
\* (0 when there is no response), error.response?.data?.error_description,
\* error.response?.data?.error?.message and error.message.
Err(st, d, em, m) ==
    [status |-> st, error_description |-> d, error_message |-> em, message |-> m]

\* The failures the remote service or the network can answer a call with.
RemoteErrors ==
    { Err(400, "remote description", Undefined, "Request failed with status code 400"),
      Err(404, Undefined, "remote message", "Request failed with status code 404"),
      Err(401, Undefined, Undefined, "Request failed with status code 401"),
      Err(403, Undefined, Undefined, "Request failed with status code 403"),
      Err(0, Undefined, Undefined, "Network Error") }

\* code.substring(0, 5) on an undefined code.
TypeError == Err(0, Undefined, Undefined, "Cannot read properties of undefined")

\* throw new Error(`Invalid artist ID (...)...`)
InvalidArtistError == Err(0, Undefined, Undefined, "Invalid artist ID")

\* The remote service accepts these authorization codes and this token.
ValidCodes == AuthCodes
ValidAuth == "Bearer tok"

\* The errorMessage of the artist+playlist /callback catch block.
CallbackErrorMessage(err) ==
    IF err.message = "Invalid artist ID" THEN err.message
    ELSE IF err.status = 403 THEN "Authentication failed. wrong account"
    ELSE IF err.error_description # Undefined
         THEN "Authentication failed. " \o err.error_description
    ELSE "Authentication failed. " \o err.message

\* catch (error) of /callback, per deployment.
CallbackCatch(v, err) ==
    CASE v = "ap" -> RedirectDetails("/?error=auth_error", CallbackErrorMessage(err))
      [] v = "inline" -> Page("Error occurred during authentication")
      [] OTHER -> Redirect(FAILURE_REDIRECT_URL)

\* A catch block that logs the request headers as they are.
Redact_none(authorization) == authorization

\* Authorization: error.config?.headers?.Authorization ? '[REDACTED]' : undefined
Redact(authorization) ==
    IF authorization # Undefined THEN "[REDACTED]" ELSE Undefined

\* What the /callback catch block writes for an error thrown by a call that
\* carried the given Authorization header (Undefined for an error that is
\* not an axios rejection).  The single-resource scripts log
\* error.response ? error.response.data : error.message.
CallbackCatchLog(v, err, authorization) ==
    IF v = "ap"
    THEN {err.error_description, err.error_message, err.message, Redact(authorization)}
    ELSE IF err.status # 0
    THEN {err.error_description, err.error_message}
    ELSE {err.message}

\* console.error('Artist verification failed:', {...})
ArtistCatchLog(err) ==
    {err.error_description, err.error_message, err.message, ARTIST_ID}

\* What the artist+playlist /callback writes before its first await.
CallbackLogAP(code, state, error, storedState) ==
    {IF Truthy(error) THEN error ELSE "none"}
    \cup (IF Truthy(error) THEN {error}
          ELSE IF ~Truthy(state) \/ ~Truthy(storedState) \/ state # storedState
          THEN {state, storedState}
          ELSE {REDIRECT_URI, ARTIST_ID, playlistId}
               \cup (IF code = Undefined
                     THEN CallbackCatchLog("ap", TypeError, Undefined)
                     ELSE {code}))

\* ------------------------------------------------------------ /callback

\* state === null || state !== storedState   (a query value is never null)
Null == "<null>"
StateCheckFailsSingle(state, storedState) ==
    state = Null \/ state # storedState

\* !state || !storedState || state !== storedState
StateCheckFailsAP(state, storedState) ==
    ~Truthy(state) \/ ~Truthy(storedState) \/ state # storedState

StateMismatchResp(v) ==
    CASE v = "ap" -> Redirect("/?error=state_mismatch")
      [] v = "inline" -> Redirect("/#error=state_mismatch")
      [] OTHER -> Redirect(FAILURE_REDIRECT_URL)

NewRequest(r) ==
    /\ Ready
    /\ req' = r
    /\ accessToken' = Undefined
    /\ artistInfo' = NoArtistInfo
    /\ userId' = Undefined
    /\ followsBefore' = follows

\* app.get('/callback') of the single-resource deployments, up to its first
\* await.  The `error` parameter is not read.
CallbackSingle ==
    /\ variant \in {"inline", "redirect"}
    /\ \E c \in QueryCodes, s \in QueryStates, e \in QueryErrors :
         /\ NewRequest([NoReq EXCEPT !.route = "callback", !.code = c, !.state = s,
                                     !.error = e, !.storedState = cookie])
         /\ IF StateCheckFailsSingle(s, cookie)
            THEN /\ Respond(StateMismatchResp(variant), FALSE)
                 /\ calls' = <<>>
            ELSE /\ calls' = <<TokenCall(c)>>
                 /\ pc' = "token"
                 /\ resp' = NoResp
                 /\ UNCHANGED cookie
    /\ UNCHANGED <<variant, follows, visible, artistIdFollows>>
    /\ UNCHANGED startup
    /\ UNCHANGED silent
    /\ UNCHANGED issued
    /\ logged' = {}
    /\ UNCHANGED followRuns

\* app.get('/callback') of the artist+playlist deployment, up to its first
\* await.  res.clearCookie comes before every check.
CallbackAP ==
    /\ variant = "ap"
    /\ \E c \in QueryCodes, s \in QueryStates, e \in QueryErrors :
         /\ NewRequest([NoReq EXCEPT !.route = "callback", !.code = c, !.state = s,
                                     !.error = e, !.storedState = cookie])
         /\ IF Truthy(e)
            THEN /\ Respond(Redirect("/?error=spotify_" \o e), TRUE)
                 /\ calls' = <<>>
            ELSE IF StateCheckFailsAP(s, cookie)
            THEN /\ Respond(StateMismatchResp(variant), TRUE)
                 /\ calls' = <<>>
            ELSE IF c = Undefined
            THEN /\ Respond(CallbackCatch(variant, TypeError), TRUE)
                 /\ calls' = <<>>
            ELSE /\ calls' = <<TokenCall(c)>>
                 /\ pc' = "token"
                 /\ resp' = NoResp
                 /\ UNCHANGED cookie
         /\ logged' = CallbackLogAP(c, s, e, cookie) \ {Undefined}
    /\ UNCHANGED <<variant, follows, visible, artistIdFollows>>
    /\ UNCHANGED startup
    /\ UNCHANGED silent
    /\ UNCHANGED issued
    /\ UNCHANGED followRuns

\* --------------------------------------------- the remote service answers

IdxOf(name) == CHOOSE i \in DOMAIN calls : calls[i].call = name
Issued(name) == \E i \in DOMAIN calls : calls[i].call = name
Pending(name) == Issued(name) /\ calls[IdxOf(name)].ans = "pending"

\* A follow request that flips the follow state.
FollowEffect_toggle(f, resource) == [f EXCEPT ![resource] = ~f[resource]]

\* method: 'put' on /me/following and /playlists/{id}/followers: the user
\* follows the resource afterwards, whether or not they did before.
FollowEffect(f, resource) == [f EXCEPT ![resource] = TRUE]

\* A handler whose artist follow-status query is sent as a PUT.
Method_artistCheckPut(name) ==
    CASE name = "token" -> "post"
      [] name \in {"putArtist", "putPlaylist", "artistCheck"} -> "put"
      [] OTHER -> "get"

\* The HTTP method of each outbound call: axios.post for the token exchange,
\* axios({method: 'put'}) for the two follow requests, axios.get otherwise.
Method(name) ==
    CASE name = "token" -> "post"
      [] name \in {"putArtist", "putPlaylist"} -> "put"
      [] OTHER -> "get"

\* The resource a follow endpoint is about: /me/following(/contains) with
\* type=artist, /playlists/{id}/followers(/contains).
ResourceOf(name) ==
    IF name \in {"artistCheck", "putArtist"} THEN "artist" ELSE "playlist"

\* What a call the remote service accepts does to the user's follow state.
RemoteEffect(f, name) ==
    IF Method(name) = "put" THEN FollowEffect(f, ResourceOf(name)) ELSE f

\* The log with the answer to one call filled in.
Answered(name, a, c) ==
    [calls EXCEPT ![IdxOf(name)].ans = a, ![IdxOf(name)].cur = c]

BoolStr(b) == IF b THEN "true" ELSE "false"

\* What the remote service holds, for reads, about the principal asked.
RemoteHolds(name, ids) ==
    IF name = "artistCheck" THEN visible["artist"]
    ELSE IF ids = CurrentUser THEN visible["playlist"]
    ELSE artistIdFollows

\* What it holds about the current user for the same resource.
CurrentUserHolds(name) ==
    IF name = "artistCheck" THEN visible["artist"] ELSE visible["playlist"]

\* res.clearCookie('spotify_auth_state') heads the artist+playlist handler
\* only.
ClearsCookie(v) == v = "ap"

\* A gate that is satisfied by either resource.
GateAP_or(isFollowingArtist, isFollowingPlaylist) ==
    isFollowingArtist \/ isFollowingPlaylist

\* isFollowingArtist && isFollowingPlaylist
GateAP(isFollowingArtist, isFollowingPlaylist) ==
    isFollowingArtist /\ isFollowingPlaylist

\* A gate that ignores the query's answer.
GateSingle_always(isFollowing) == TRUE

\* if (isFollowing)
GateSingle(isFollowing) == isFollowing

\* Success and failure destinations swapped.
SuccessResp_swapped(v) ==
    IF v = "inline" THEN Page("Access Denied") ELSE Redirect(FAILURE_REDIRECT_URL)

SuccessResp(v) ==
    IF v = "inline" THEN Page("Success!") ELSE Redirect(SUCCESS_REDIRECT_URL)

\* A not-following branch that grants access.
NotFollowingResp_grants(v) == SuccessResp(v)

NotFollowingResp(v) ==
    IF v = "inline" THEN Page("Access Denied") ELSE Redirect(FAILURE_REDIRECT_URL)

\* await axios.post(SPOTIFY_TOKEN_URL, ...) settles; on success the handler
\* runs on to its next call.
TokenAnswered ==
    /\ ~silent
    /\ pc = "token"
    /\ \/ \E t \in {"tok", Undefined} :
            /\ calls[1].code \in ValidCodes
            /\ accessToken' = t
            /\ follows' = RemoteEffect(follows, "token")
            /\ IF variant = "ap"
               THEN /\ calls' = Append(Answered("token", "ok", "-"), ArtistInfoCall(t))
                    /\ pc' = "artist"
               ELSE /\ calls' = Append(Answered("token", "ok", "-"), ArtistCheckCall(t))
                    /\ pc' = "check"
            /\ UNCHANGED <<cookie, resp>>
            /\ Log(IF variant = "ap" THEN {ARTIST_ID} ELSE {})
       \/ \E err \in RemoteErrors :
            /\ calls' = Answered("token", "fail", "-")
            /\ Respond(CallbackCatch(variant, err), ClearsCookie(variant))
            /\ Log(CallbackCatchLog(variant, err, calls[1].auth))
            /\ UNCHANGED accessToken
            /\ UNCHANGED follows
    /\ UNCHANGED <<variant, visible, artistIdFollows, req, artistInfo, userId>>
    /\ UNCHANGED startup
    /\ UNCHANGED silent
    /\ UNCHANGED issued
    /\ UNCHANGED followRuns
    /\ UNCHANGED followsBefore

\* await axios.get(`${SPOTIFY_API_URL}/artists/${ARTIST_ID}`) settles; on
\* success both follow-status queries of Promise.all are issued, the
\* playlist one keyed on artistInfo.id.
ArtistInfoAnswered ==
    /\ ~silent
    /\ pc = "artist"
    /\ \/ \E im \in BOOLEAN :
            LET info == [id |-> ARTIST_ID, images |-> im]
            IN  /\ calls[IdxOf("artistInfo")].auth = ValidAuth
                /\ artistInfo' = info
                /\ follows' = RemoteEffect(follows, "artistInfo")
                /\ calls' = Answered("artistInfo", "ok", "-")
                               \o <<ArtistCheckCall(accessToken),
                                    PlaylistCheckCall(accessToken, info.id)>>
                /\ pc' = "checks"
                /\ UNCHANGED <<cookie, resp>>
                /\ Log({info.id})
       \/ \E err \in RemoteErrors :
            /\ calls' = Answered("artistInfo", "fail", "-")
            /\ Respond(CallbackCatch(variant, InvalidArtistError), ClearsCookie(variant))
            /\ Log(ArtistCatchLog(err)
                   \cup CallbackCatchLog(variant, InvalidArtistError, Undefined))
            /\ UNCHANGED artistInfo
            /\ UNCHANGED follows
    /\ UNCHANGED <<variant, visible, artistIdFollows, req, accessToken, userId>>
    /\ UNCHANGED startup
    /\ UNCHANGED silent
    /\ UNCHANGED issued
    /\ UNCHANGED followRuns
    /\ UNCHANGED followsBefore

\* The follow-status query of a single-resource /callback settles.
CheckAnsweredSingle ==
    /\ ~silent
    /\ pc = "check"
    /\ \/ /\ calls[IdxOf("artistCheck")].auth = ValidAuth
          /\ calls' = Answered("artistCheck", BoolStr(RemoteHolds("artistCheck", "-")),
                               BoolStr(CurrentUserHolds("artistCheck")))
          /\ IF GateSingle(RemoteHolds("artistCheck", "-"))
             THEN Respond(SuccessResp(variant), ClearsCookie(variant))
             ELSE Respond(NotFollowingResp(variant), ClearsCookie(variant))
          /\ UNCHANGED logged
          /\ follows' = RemoteEffect(follows, "artistCheck")
       \/ \E err \in RemoteErrors :
            /\ calls' = Answered("artistCheck", "fail", "-")
            /\ UNCHANGED follows
            /\ Respond(CallbackCatch(variant, err), ClearsCookie(variant))
            /\ Log(CallbackCatchLog(variant, err, calls[IdxOf("artistCheck")].auth))
    /\ UNCHANGED <<variant, visible, artistIdFollows, req, accessToken,
                   artistInfo, userId>>
    /\ UNCHANGED startup
    /\ UNCHANGED silent
    /\ UNCHANGED issued
    /\ UNCHANGED followRuns
    /\ UNCHANGED followsBefore

\* A join that is satisfied by the first query to settle.
Joined_first(a, p) == a # "pending" \/ p # "pending"

\* await Promise.all([...]): fulfilled when both queries have returned.
Joined(a, p) == a # "pending" /\ p # "pending"

\* One of the two queries of the artist+playlist /callback's Promise.all
\* settles.  The first rejection runs the catch block; the second
\* fulfilment runs the gate, where artistInfo.images[0] throws on a record
\* without an images list.
CheckAnsweredAP ==
    /\ ~silent
    /\ pc = "checks"
    /\ \E name \in {"artistCheck", "playlistCheck"} :
         /\ Pending(name)
         /\ \/ /\ calls[IdxOf(name)].auth = ValidAuth
               /\ follows' = RemoteEffect(follows, name)
               /\ LET log == Answered(name, BoolStr(RemoteHolds(name, calls[IdxOf(name)].ids)),
                                      BoolStr(CurrentUserHolds(name)))
                      a == log[IdxOf("artistCheck")].ans
                      p == log[IdxOf("playlistCheck")].ans
                  IN  IF ~Joined(a, p)
                      THEN /\ calls' = log
                           /\ UNCHANGED <<pc, cookie, resp, logged>>
                      ELSE IF GateAP(a = "true", p = "true")
                      THEN /\ calls' = log
                           /\ Respond(SuccessResp(variant), ClearsCookie(variant))
                           /\ Log({a, p, SUCCESS_REDIRECT_URL})
                      ELSE IF ~artistInfo.images
                      THEN /\ calls' = log
                           /\ Respond(CallbackCatch(variant, TypeError), ClearsCookie(variant))
                           /\ Log({a, p} \cup CallbackCatchLog(variant, TypeError, Undefined))
                      ELSE /\ calls' = Append(log, PlaylistMetaCall(accessToken))
                           /\ pc' = "meta"
                           /\ Log({a, p})
                           /\ UNCHANGED <<cookie, resp>>
            \/ \E err \in RemoteErrors :
                 /\ calls' = Answered(name, "fail", "-")
                 /\ UNCHANGED follows
                 /\ Respond(CallbackCatch(variant, err), ClearsCookie(variant))
                 /\ Log(CallbackCatchLog(variant, err, calls[IdxOf(name)].auth))
    /\ UNCHANGED <<variant, visible, artistIdFollows, req, accessToken,
                   artistInfo, userId>>
    /\ UNCHANGED startup
    /\ UNCHANGED silent
    /\ UNCHANGED issued
    /\ UNCHANGED followRuns
    /\ UNCHANGED followsBefore

\* await axios.get(`${SPOTIFY_API_URL}/playlists/${PLAYLIST_ID}`) settles.
PlaylistMetaAnswered ==
    /\ ~silent
    /\ pc = "meta"
    /\ \/ /\ calls[IdxOf("playlistMeta")].auth = ValidAuth
          /\ calls' = Answered("playlistMeta", "ok", "-")
          /\ Respond(Page("follow page"), ClearsCookie(variant))
          /\ UNCHANGED logged
          /\ follows' = RemoteEffect(follows, "playlistMeta")
       \/ \E err \in RemoteErrors :
            /\ calls' = Answered("playlistMeta", "fail", "-")
            /\ UNCHANGED follows
            /\ Respond(CallbackCatch(variant, err), ClearsCookie(variant))
            /\ Log(CallbackCatchLog(variant, err, calls[IdxOf("playlistMeta")].auth))
    /\ UNCHANGED <<variant, visible, artistIdFollows, req, accessToken,
                   artistInfo, userId>>
    /\ UNCHANGED startup
    /\ UNCHANGED silent
    /\ UNCHANGED issued
    /\ UNCHANGED followRuns
    /\ UNCHANGED followsBefore

\* --------------------------------------------------------------- /follow

\* The details string of the /follow catch block.
FollowErrorMessage(err) ==
    IF err.status = 401 THEN "Failed to follow. session expired"
    ELSE IF err.status = 403 THEN "Failed to follow. permission denied"
    ELSE IF err.error_message # Undefined
         THEN "Failed to follow. " \o err.error_message
    ELSE "Failed to follow. " \o err.message

\* A catch block that reports success.
FollowCatch_success(err) == Json(200, "success", "-")

\* catch (error) of /follow: status error.response?.status || 500.
FollowCatch(err) ==
    Json(IF err.status = 0 THEN 500 ELSE err.status, "Failed to follow",
         FollowErrorMessage(err))

\* A second rejection that runs the catch block once more.
LateAnswered_answersAgain ==
    /\ ~silent
    /\ pc = "done"
    /\ \E name \in {"artistCheck", "playlistCheck"} :
         /\ Pending(name)
         /\ \/ /\ calls[IdxOf(name)].auth = ValidAuth
               /\ UNCHANGED resp
               /\ follows' = RemoteEffect(follows, name)
               /\ calls' = Answered(name, BoolStr(RemoteHolds(name, calls[IdxOf(name)].ids)),
                                    BoolStr(CurrentUserHolds(name)))
            \/ \E err \in RemoteErrors :
                 /\ calls' = Answered(name, "fail", "-")
                 /\ resp' = IF req.route = "follow" THEN FollowCatch(err)
                            ELSE CallbackCatch(variant, err)
                 /\ UNCHANGED follows
    /\ UNCHANGED <<variant, cookie, visible, artistIdFollows, req, pc,
                   accessToken, artistInfo, userId>>
    /\ UNCHANGED startup
    /\ UNCHANGED silent
    /\ UNCHANGED issued
    /\ UNCHANGED logged
    /\ UNCHANGED followRuns
    /\ UNCHANGED followsBefore

\* A query of Promise.all settles after the other one's rejection has
\* already ended the request: its result is dropped.
LateAnswered ==
    /\ ~silent
    /\ pc = "done"
    /\ \E name \in {"artistCheck", "playlistCheck"} :
         /\ Pending(name)
         /\ \/ /\ calls[IdxOf(name)].auth = ValidAuth
               /\ follows' = RemoteEffect(follows, name)
               /\ calls' = Answered(name, BoolStr(RemoteHolds(name, calls[IdxOf(name)].ids)),
                                    BoolStr(CurrentUserHolds(name)))
            \/ /\ calls' = Answered(name, "fail", "-")
               /\ UNCHANGED follows
    /\ UNCHANGED <<variant, cookie, visible, artistIdFollows, req, pc,
                   accessToken, artistInfo, userId, resp>>
    /\ UNCHANGED startup
    /\ UNCHANGED silent
    /\ UNCHANGED issued
    /\ UNCHANGED logged
    /\ UNCHANGED followRuns
    /\ UNCHANGED followsBefore

\* A guard that only notices an absent parameter.
TokenMissing_absentOnly(access_token) == access_token = Undefined

\* if (!access_token)
TokenMissing(access_token) == ~Truthy(access_token)

\* console.error('Follow error:', {endpoint, status, data, message})
FollowCatchLog(err) == {err.error_description, err.error_message, err.message}

\* app.get('/follow') up to its first await.
FollowStart ==
    /\ variant = "ap"
    /\ \E t \in QueryTokens :
         /\ NewRequest([NoReq EXCEPT !.route = "follow", !.access_token = t])
         /\ IF TokenMissing(t)
            THEN /\ Respond(Json(400, "No access token provided", "-"), FALSE)
                 /\ calls' = <<>>
                 /\ logged' = {"No access token provided"}
            ELSE /\ calls' = <<MeCall(t)>>
                 /\ pc' = "me"
                 /\ resp' = NoResp
                 /\ UNCHANGED cookie
                 /\ logged' = {}
    /\ UNCHANGED <<variant, follows, visible, artistIdFollows>>
    /\ UNCHANGED startup
    /\ UNCHANGED silent
    /\ UNCHANGED issued
    /\ UNCHANGED followRuns

\* A handler that goes on to the artist follow after a failed identity probe.
MeAnswered_continues ==
    /\ ~silent
    /\ pc = "me"
    /\ \/ /\ calls[IdxOf("me")].auth = ValidAuth
          /\ userId' = CurrentUser
          /\ follows' = RemoteEffect(follows, "me")
          /\ calls' = Append(Answered("me", "ok", "-"), PutArtistCall(req.access_token))
          /\ pc' = "putArtist"
          /\ UNCHANGED <<cookie, resp>>
          /\ Log({CurrentUser})
       \/ \E err \in RemoteErrors :
            /\ calls' = Append(Answered("me", "fail", "-"), PutArtistCall(req.access_token))
            /\ pc' = "putArtist"
            /\ Log(FollowCatchLog(err))
            /\ UNCHANGED <<userId, cookie, resp, follows>>
    /\ UNCHANGED <<variant, visible, artistIdFollows, req, accessToken, artistInfo>>
    /\ UNCHANGED startup
    /\ UNCHANGED silent
    /\ UNCHANGED issued
    /\ UNCHANGED followRuns
    /\ UNCHANGED followsBefore

\* The identity probe settles; on success the artist follow is issued.
MeAnswered ==
    /\ ~silent
    /\ pc = "me"
    /\ \/ /\ calls[IdxOf("me")].auth = ValidAuth
          /\ userId' = CurrentUser
          /\ follows' = RemoteEffect(follows, "me")
          /\ calls' = Append(Answered("me", "ok", "-"), PutArtistCall(req.access_token))
          /\ pc' = "putArtist"
          /\ UNCHANGED <<cookie, resp>>
          /\ Log({CurrentUser})
       \/ \E err \in RemoteErrors :
            /\ calls' = Answered("me", "fail", "-")
            /\ Respond(FollowCatch(err), FALSE)
            /\ Log(FollowCatchLog(err))
            /\ UNCHANGED userId
            /\ UNCHANGED follows
    /\ UNCHANGED <<variant, visible, artistIdFollows, req, accessToken, artistInfo>>
    /\ UNCHANGED startup
    /\ UNCHANGED silent
    /\ UNCHANGED issued
    /\ UNCHANGED followRuns
    /\ UNCHANGED followsBefore

\* The artist follow settles; on success the playlist follow is issued.
PutArtistAnswered ==
    /\ ~silent
    /\ pc = "putArtist"
    /\ \/ /\ calls[IdxOf("putArtist")].auth = ValidAuth
          /\ follows' = RemoteEffect(follows, "putArtist")
          /\ calls' = Append(Answered("putArtist", "ok", "-"),
                             PutPlaylistCall(req.access_token))
          /\ pc' = "putPlaylist"
          /\ UNCHANGED <<cookie, resp, logged>>
       \/ \E err \in RemoteErrors :
            /\ calls' = Answered("putArtist", "fail", "-")
            /\ Respond(FollowCatch(err), FALSE)
            /\ Log(FollowCatchLog(err))
            /\ UNCHANGED follows
    /\ UNCHANGED <<variant, visible, artistIdFollows, req, accessToken, artistInfo, userId>>
    /\ UNCHANGED startup
    /\ UNCHANGED silent
    /\ UNCHANGED issued
    /\ UNCHANGED followRuns
    /\ UNCHANGED followsBefore

\* The playlist follow settles; on success both verification queries of
\* Promise.all are issued, the playlist one keyed on userResponse.data.id.
PutPlaylistAnswered ==
    /\ ~silent
    /\ pc = "putPlaylist"
    /\ \/ /\ calls[IdxOf("putPlaylist")].auth = ValidAuth
          /\ follows' = RemoteEffect(follows, "putPlaylist")
          /\ calls' = Answered("putPlaylist", "ok", "-")
                         \o <<ArtistCheckCall(req.access_token),
                              PlaylistCheckCall(req.access_token, userId)>>
          /\ pc' = "verify"
          /\ followRuns' = IF followRuns < MaxFollowRuns THEN followRuns + 1 ELSE followRuns
          /\ UNCHANGED <<cookie, resp, logged>>
       \/ \E err \in RemoteErrors :
            /\ calls' = Answered("putPlaylist", "fail", "-")
            /\ Respond(FollowCatch(err), FALSE)
            /\ Log(FollowCatchLog(err))
            /\ UNCHANGED <<follows, followRuns>>
    /\ UNCHANGED <<variant, visible, artistIdFollows, req, accessToken, artistInfo, userId>>
    /\ UNCHANGED startup
    /\ UNCHANGED silent
    /\ UNCHANGED issued
    /\ UNCHANGED followsBefore

\* A verification satisfied by the artist alone.
GateFollow_artistOnly(artistFollowed, playlistFollowed) == artistFollowed

\* artistFollow.data[0] && playlistFollow.data[0]
GateFollow(artistFollowed, playlistFollowed) == artistFollowed /\ playlistFollowed

\* One of the two verification queries settles.
VerifyAnswered ==
    /\ ~silent
    /\ pc = "verify"
    /\ \E name \in {"artistCheck", "playlistCheck"} :
         /\ Pending(name)
         /\ \/ /\ calls[IdxOf(name)].auth = ValidAuth
               /\ follows' = RemoteEffect(follows, name)
               /\ LET log == Answered(name, BoolStr(RemoteHolds(name, calls[IdxOf(name)].ids)),
                                      BoolStr(CurrentUserHolds(name)))
                      a == log[IdxOf("artistCheck")].ans
                      p == log[IdxOf("playlistCheck")].ans
                  IN  /\ calls' = log
                      /\ UNCHANGED logged
                      /\ IF ~Joined(a, p)
                         THEN UNCHANGED <<pc, cookie, resp>>
                         ELSE IF GateFollow(a = "true", p = "true")
                         THEN Respond(Json(200, "success", "-"), FALSE)
                         ELSE Respond(Json(500, "Failed to verify follows",
                                           "verification failed"), FALSE)
            \/ \E err \in RemoteErrors :
                 /\ calls' = Answered(name, "fail", "-")
                 /\ UNCHANGED follows
                 /\ Respond(FollowCatch(err), FALSE)
                 /\ Log(FollowCatchLog(err))
    /\ UNCHANGED <<variant, visible, artistIdFollows, req, accessToken,
                   artistInfo, userId>>
    /\ UNCHANGED startup
    /\ UNCHANGED silent
    /\ UNCHANGED issued
    /\ UNCHANGED followRuns
    /\ UNCHANGED followsBefore

\* The remote service's reads catch up with its writes.
Propagate ==
    /\ visible # follows
    /\ visible' = follows
    /\ UNCHANGED <<variant, cookie, follows, artistIdFollows, req, pc, accessToken,
                   artistInfo, userId, calls, resp>>
    /\ UNCHANGED startup
    /\ UNCHANGED silent
    /\ UNCHANGED issued
    /\ UNCHANGED logged
    /\ UNCHANGED followRuns
    /\ UNCHANGED followsBefore

\* The remote service stops answering while a request awaits it.  No axios
\* call sets a timeout, so nothing else ends the wait.
GoSilent ==
    /\ ~silent
    /\ pc \notin {"idle", "done"}
    /\ silent' = TRUE
    /\ UNCHANGED <<variant, cookie, follows, visible, artistIdFollows, req, pc,
                   accessToken, artistInfo, userId, calls, resp>>
    /\ UNCHANGED startup
    /\ UNCHANGED issued
    /\ UNCHANGED logged
    /\ UNCHANGED followRuns
    /\ UNCHANGED followsBefore

\* The continuation of whichever await the request is suspended at.
HandlerStep ==
    \/ TokenAnswered
    \/ ArtistInfoAnswered
    \/ CheckAnsweredSingle
    \/ CheckAnsweredAP
    \/ PlaylistMetaAnswered
    \/ MeAnswered
    \/ PutArtistAnswered
    \/ PutPlaylistAnswered
    \/ VerifyAnswered

Next ==
    \/ Start
    \/ GoSilent
    \/ FollowStart
    \/ MeAnswered
    \/ PutArtistAnswered
    \/ PutPlaylistAnswered
    \/ VerifyAnswered
    \/ Propagate
    \/ Login
    \/ CallbackSingle
    \/ CallbackAP
    \/ TokenAnswered
    \/ ArtistInfoAnswered
    \/ CheckAnsweredSingle
    \/ CheckAnsweredAP
    \/ PlaylistMetaAnswered
    \/ LateAnswered

Spec == Init /\ [][Next]_vars

\* The event loop runs the script to app.listen and resumes a suspended
\* handler whenever its call settles; a remote service that has not gone
\* silent settles every call.
FairSpec == Spec /\ WF_vars(Start) /\ WF_vars(HandlerStep)

\* ============================================================ properties

CallbackReq == req.route = "callback"
CallbackDone == CallbackReq /\ pc = "done"

\* The answer recorded for a call, "none" when it was not issued.
AnsOf(name) == IF Issued(name) THEN calls[IdxOf(name)].ans ELSE "none"
Returned(name) == AnsOf(name) \in {"true", "false"}

FollowChecks == {"artistCheck", "playlistCheck"}

\* The success outcome: the redirect to SUCCESS_REDIRECT_URL, or the
\* 'Success!' page of the deployment without redirect URLs.
IsSuccess ==
    \/ resp.kind = "redirect" /\ resp.to = SUCCESS_REDIRECT_URL
    \/ resp.kind = "page" /\ resp.to = "Success!"

\* The response each deployment gives on a state mismatch.
IsStateMismatch ==
    CASE variant = "ap" -> resp.kind = "redirect" /\ resp.to = "/?error=state_mismatch"
      [] variant = "inline" -> resp.kind = "redirect" /\ resp.to = "/#error=state_mismatch"
      [] OTHER -> resp.kind = "redirect" /\ resp.to = FAILURE_REDIRECT_URL

\* C1: a /callback request ends in the success outcome only if its state
\* equalled the stored cookie (and, in the artist+playlist deployment, was
\* not empty), its token exchange returned successfully, and every
\* follow-status query it issued returned true.
C1_SuccessOnlyWhenFollowing ==
    (CallbackReq /\ IsSuccess) =>
        /\ req.state = req.storedState
        /\ variant = "ap" => Truthy(req.state) /\ Truthy(req.storedState)
        /\ AnsOf("token") = "ok"
        /\ Issued("artistCheck")
        /\ variant = "ap" => Issued("playlistCheck")
        /\ \A i \in DOMAIN calls :
              calls[i].call \in FollowChecks => calls[i].ans = "true"

C1_Witness ==
    /\ CallbackDone /\ IsSuccess
    /\ variant = "ap"
    /\ AnsOf("artistCheck") = "true" /\ AnsOf("playlistCheck") = "true"

\* C2 (as claimed): a /callback request without a provider error whose state
\* is absent, whose stored cookie is absent, or whose state differs from the
\* cookie issues no token-exchange POST and ends in the state-mismatch
\* response, in every deployment.
C2_MismatchNeverExchanges ==
    (/\ CallbackReq
     /\ req.error = Undefined
     /\ \/ req.state = Undefined
        \/ req.storedState = Undefined
        \/ req.state # req.storedState)
    => /\ ~Issued("token")
       /\ pc = "done" => IsStateMismatch

\* C3: a /callback request with no provider error, a code, and a state equal
\* to the stored cookie has issued exactly one token POST, carrying
\* grant_type=authorization_code, that code and the redirect URI, and that
\* POST precedes every other outbound call of the request.
C3_ValidRequestExchangesFirst ==
    (/\ CallbackReq
     /\ req.error = Undefined
     /\ req.code # Undefined
     /\ req.state # Undefined /\ req.storedState # Undefined
     /\ req.state = req.storedState)
    => /\ Len(calls) >= 1
       /\ calls[1].call = "token"
       /\ calls[1].code = req.code
       /\ calls[1].grant_type = "authorization_code"
       /\ calls[1].redirect_uri = REDIRECT_URI
       /\ Cardinality({i \in DOMAIN calls : calls[i].call = "token"}) = 1

C3_Witness ==
    /\ CallbackReq
    /\ req.error = Undefined /\ req.code = "c2"
    /\ req.state \in StateTokens /\ req.state = req.storedState
    /\ Issued("artistCheck")
    /\ calls[1].code = "c2"

\* C4 (as claimed): a /callback request carrying a provider error issues no
\* token-exchange call and ends in a failure redirect with the anti-forgery
\* cookie cleared, in every deployment.
C4_ProviderErrorFirst ==
    (CallbackReq /\ Truthy(req.error))
    => /\ ~Issued("token")
       /\ pc = "done" => /\ resp.kind = "redirect"
                         /\ ~IsSuccess
                         /\ cookie = Undefined

\* C5 (as claimed): a /callback request with no provider error and no code
\* issues no token-exchange call and is not classified as a state mismatch,
\* even when its state does not match the cookie.
C5_MissingCodeBeforeState ==
    (CallbackReq /\ req.error = Undefined /\ req.code = Undefined)
    => /\ ~Issued("token")
       /\ pc = "done" =>
             /\ ~IsSuccess
             /\ variant = "ap" => resp.to # "/?error=state_mismatch"

\* C6 (as claimed): once a /callback request has been handled the browser
\* no longer holds a state cookie, in every deployment.
C6_StateConsumed ==
    CallbackDone => cookie = Undefined

\* C7: in the artist+playlist /callback, once the token exchange, the artist
\* lookup and both follow-status queries have returned, the response is the
\* redirect to the success destination if and only if both queries
\* returned true.
C7_GateIsConjunction ==
    (/\ variant = "ap" /\ CallbackReq
     /\ Returned("artistCheck") /\ Returned("playlistCheck"))
    => (IsSuccess <=> (AnsOf("artistCheck") = "true" /\ AnsOf("playlistCheck") = "true"))

C7_Witness ==
    /\ variant = "ap" /\ CallbackDone
    /\ AnsOf("artistCheck") = "true" /\ AnsOf("playlistCheck") = "false"
    /\ resp.kind = "page"

\* C8 (as claimed): every playlist follow-status query is keyed on the
\* authenticated user, so an artist+playlist /callback whose remote calls
\* all succeeded, for a user the remote service reported as following every
\* resource asked about, ends in the success redirect.
C8_ChecksAskAboutCurrentUser ==
    /\ \A i \in DOMAIN calls :
          calls[i].call = "playlistCheck" => calls[i].ids = CurrentUser
    /\ (/\ variant = "ap" /\ CallbackDone
        /\ \A i \in DOMAIN calls : calls[i].ans \notin {"fail", "pending"}
        /\ Issued("artistCheck") /\ Issued("playlistCheck")
        /\ \A i \in DOMAIN calls :
              calls[i].call \in FollowChecks => calls[i].cur = "true")
       => IsSuccess

\* A request with a code and with a non-empty state equal to the cookie.
ValidCodeState ==
    /\ req.error = Undefined
    /\ Truthy(req.code)
    /\ Truthy(req.state) /\ req.state = req.storedState

\* The artist-follow check of a valid /callback whose token exchange
\* succeeded returned false, and the playlist check, where one was issued,
\* returned too.
ArtistCheckFalse ==
    /\ CallbackDone
    /\ ValidCodeState
    /\ AnsOf("token") = "ok"
    /\ AnsOf("artistCheck") = "false"
    /\ Issued("playlistCheck") => Returned("playlistCheck")

\* C9 (as claimed): when the artist-follow check returns false the response
\* is the interactive follow page, whatever the playlist check returns and
\* whatever the playlist-metadata fetch does.
C9_AlwaysFollowPage ==
    ArtistCheckFalse => (resp.kind = "page" /\ resp.to = "follow page")

\* C9 (amended): when the artist-follow check returns false the response is
\* never the success outcome.  The artist+playlist deployment answers with
\* the follow page when the artist record has an images list and the
\* playlist-metadata fetch succeeds, and with the auth_error redirect
\* otherwise; the redirect deployment redirects to FAILURE_REDIRECT_URL; the
\* inline deployment answers with its 'Access Denied' page.
C9_NeverSuccessWhenNotFollowing ==
    ArtistCheckFalse =>
        /\ ~IsSuccess
        /\ variant = "ap" =>
             IF artistInfo.images /\ AnsOf("playlistMeta") = "ok"
             THEN resp.kind = "page" /\ resp.to = "follow page"
             ELSE resp.kind = "redirect" /\ resp.to = "/?error=auth_error"
        /\ variant = "redirect" =>
             resp.kind = "redirect" /\ resp.to = FAILURE_REDIRECT_URL
        /\ variant = "inline" =>
             resp.kind = "page" /\ resp.to = "Access Denied"

C9_Witness ==
    /\ ArtistCheckFalse
    /\ variant = "ap"
    /\ AnsOf("playlistCheck") = "true"
    /\ AnsOf("playlistMeta") = "fail"

\* The artist-follow check of a valid single-resource /callback whose token
\* exchange succeeded returned true.
SingleCheckTrue ==
    /\ variant \in {"inline", "redirect"}
    /\ CallbackDone
    /\ ValidCodeState
    /\ AnsOf("token") = "ok"
    /\ AnsOf("artistCheck") = "true"

\* C10 (as claimed): in the single-resource deployments, when the
\* artist-follow check returns true the response is an HTTP redirect to the
\* configured success URL.
C10_AlwaysSuccessRedirect ==
    SingleCheckTrue => (resp.kind = "redirect" /\ resp.to = SUCCESS_REDIRECT_URL)

\* C10 (amended): when the artist-follow check returns true, the redirect
\* deployment redirects to SUCCESS_REDIRECT_URL and the inline deployment,
\* which has no success URL, answers with its 'Success!' page.
C10_SuccessPerDeployment ==
    SingleCheckTrue =>
        IF variant = "redirect"
        THEN resp.kind = "redirect" /\ resp.to = SUCCESS_REDIRECT_URL
        ELSE resp.kind = "page" /\ resp.to = "Success!"

C10_Witness ==
    /\ SingleCheckTrue
    /\ variant = "redirect"
    /\ resp.to = SUCCESS_REDIRECT_URL

FollowReq == req.route = "follow"
FollowDone == FollowReq /\ pc = "done"

\* C11: a /follow request whose access_token is missing or empty is answered
\* with HTTP 400 and the error "No access token provided", and issues no
\* remote call.
C11_NoTokenNoCall ==
    (FollowReq /\ (req.access_token = Undefined \/ req.access_token = ""))
    => /\ calls = <<>>
       /\ pc = "done"
       /\ resp.kind = "json" /\ resp.status = 400
       /\ resp.to = "No access token provided"

C11_Witness ==
    /\ FollowDone /\ req.access_token = ""
    /\ resp.status = 400 /\ calls = <<>>

\* C12: /follow answers {success: true} only when both verification queries
\* returned true; when the identity probe and both follow mutations
\* succeeded and both queries returned but one reported false, it answers
\* with an HTTP error status carrying an error and details.
C12_SuccessOnlyWhenVerified ==
    FollowReq =>
        /\ (resp.kind = "json" /\ resp.status = 200) =>
              (AnsOf("artistCheck") = "true" /\ AnsOf("playlistCheck") = "true")
        /\ (/\ AnsOf("me") = "ok" /\ AnsOf("putArtist") = "ok" /\ AnsOf("putPlaylist") = "ok"
            /\ Returned("artistCheck") /\ Returned("playlistCheck")
            /\ (AnsOf("artistCheck") = "false" \/ AnsOf("playlistCheck") = "false"))
           => /\ pc = "done"
              /\ resp.kind = "json" /\ resp.status >= 400
              /\ resp.to = "Failed to verify follows"
              /\ resp.details # "-"

C12_Witness ==
    /\ FollowDone
    /\ AnsOf("putArtist") = "ok" /\ AnsOf("putPlaylist") = "ok"
    /\ AnsOf("artistCheck") = "true" /\ AnsOf("playlistCheck") = "false"
    /\ resp.status = 500

\* C13 (as claimed): a /follow request whose identity probe succeeded has,
\* when it ends, issued a follow mutation for the artist and for the
\* playlist, even when one of them failed; if one failed the request ends
\* in an error response.
C13_AttemptsEveryResource ==
    (FollowDone /\ AnsOf("me") = "ok")
    => /\ Issued("putArtist") /\ Issued("putPlaylist")
       /\ (AnsOf("putArtist") = "fail" \/ AnsOf("putPlaylist") = "fail")
             => (resp.kind = "json" /\ resp.status >= 400)

\* The configuration values the specification calls required.
RequiredConfig == {"CLIENT_ID", "CLIENT_SECRET", "REDIRECT_URI", "ARTIST_ID"}

\* C14: when a required configuration value (client id, client secret,
\* redirect URI, artist id) is absent, the process never listens and never
\* serves a request: once started it has exited with status 1.
C14_MissingConfigIsFatal ==
    ~(RequiredConfig \subseteq env)
    => /\ proc \in {"starting", "exit(1)"}
       /\ req = NoReq /\ resp = NoResp /\ calls = <<>>

C14_Witness ==
    /\ proc = "exit(1)"
    /\ env = EnvVarsRead(variant) \ {"ARTIST_ID"}

\* C15 (as claimed): the artist+playlist server whose environment sets
\* everything but PLAYLIST_ID starts, listens, and uses the literal default
\* playlist id.
C15_PlaylistIdOptional ==
    (/\ variant = "ap"
     /\ proc # "starting"
     /\ env = EnvVarsRead("ap") \ {"PLAYLIST_ID"})
    => /\ proc = "listening"
       /\ playlistId = DefaultPlaylistId

Awaiting == pc \notin {"idle", "done"}

\* C16 (as claimed): a request that is waiting for a remote call the remote
\* service never answers is still answered eventually (a timeout ends the
\* call).
C16_NoRequestHangs ==
    (Awaiting /\ silent) ~> (pc = "done")

\* C17 (as claimed): when the token endpoint answers with a failure, or with
\* a 2xx body that carries no access_token, the /callback request issues no
\* further remote call and ends in a failure response.
C17_TokenFailureStopsRequest ==
    (/\ CallbackReq
     /\ \/ AnsOf("token") = "fail"
        \/ AnsOf("token") = "ok" /\ accessToken = Undefined)
    => /\ Len(calls) = 1
       /\ pc = "done"
       /\ ~IsSuccess

\* C18: after two /login requests, a /callback (without provider error)
\* that carries the state token of the earlier one, not the token of the
\* most recent one, is rejected with the state-mismatch response and issues
\* no token exchange.
C18_OnlyLatestStateAccepted ==
    (/\ CallbackReq
     /\ req.error = Undefined
     /\ prevIssued # Undefined
     /\ req.state = prevIssued
     /\ req.state # lastIssued)
    => /\ ~Issued("token")
       /\ pc = "done"
       /\ IsStateMismatch

C18_Witness ==
    /\ CallbackDone
    /\ prevIssued = "s1" /\ lastIssued = "s2"
    /\ req.state = "s1" /\ req.storedState = "s2"
    /\ req.code = "c1" /\ req.error = Undefined
    /\ IsStateMismatch

\* The client secret, the Basic header built from it, and bearer tokens.
Credentials ==
    {CLIENT_SECRET, BasicAuth}
    \cup {t : t \in {"tok", "bad"}} \cup {Bearer(t) : t \in {"tok", "bad"}}

\* The target of the redirect the server produced, if it produced one.
RedirectParts == IF resp.kind = "redirect" THEN {resp.to, resp.details} ELSE {}

\* C19: no credential (client secret, Basic authorization header, bearer
\* access token) is ever written to the log or put into a redirect target.
C19_NoCredentialLeak ==
    (logged \cup RedirectParts) \cap Credentials = {}

C19_Witness ==
    /\ variant = "ap" /\ CallbackDone
    /\ AnsOf("token") = "fail"
    /\ "[REDACTED]" \in logged
    /\ resp.kind = "redirect"

AllFollowed == [r \in Resources |-> TRUE]

FollowMutationCalls == {"me", "putArtist", "putPlaylist"}

PartialFollow ==
    /\ FollowReq
    /\ AnsOf("putArtist") = "ok"
    /\ AnsOf("putPlaylist") = "fail"

\* C21: when in a /follow request the artist follow succeeds and the
\* playlist follow fails, the request has ended with an error response, no
\* call other than the identity probe and the two follow mutations was
\* issued (no unfollow), and the user follows the artist on the remote
\* service.
C21_PartialFailureNotRolledBack ==
    PartialFollow =>
        /\ pc = "done"
        /\ resp.kind = "json" /\ resp.to = "Failed to follow" /\ resp.status >= 400
        /\ \A i \in DOMAIN calls : calls[i].call \in FollowMutationCalls
        /\ follows["artist"]

C21_Witness ==
    /\ PartialFollow
    /\ FollowDone
    /\ follows["artist"] /\ ~follows["playlist"]

\* The position of a call in the log, which is kept in the order of issue.
Before(first, second) ==
    (Issued(first) /\ Issued(second)) => IdxOf(first) < IdxOf(second)

FollowMutations == {"putArtist", "putPlaylist"}

\* C22: in a /follow request a follow mutation is issued only after the
\* identity probe returned successfully, a verification query only after
\* both follow mutations returned successfully, the calls are issued in that
\* order, and when the identity probe fails the probe is the only call of
\* the request, which has ended, and the user's follow state is what it was
\* when the request arrived.
C22_FollowPipelineOrdered ==
    FollowReq =>
        /\ \A m \in FollowMutations :
              /\ Issued(m) => AnsOf("me") = "ok"
              /\ Before("me", m)
        /\ \A c \in FollowChecks :
              /\ Issued(c) => \A m \in FollowMutations : AnsOf(m) = "ok"
              /\ \A m \in FollowMutations : Before(m, c)
        /\ AnsOf("me") = "fail" =>
              /\ Len(calls) = 1
              /\ pc = "done"
              /\ follows = followsBefore

C22_Witness ==
    /\ FollowDone
    /\ AnsOf("me") = "ok"
    /\ \A m \in FollowMutations : AnsOf(m) = "ok"
    /\ \A c \in FollowChecks : Returned(c)
    /\ follows # followsBefore

\* A request whose handler issues the two follow-status queries together.
JoinReq == variant = "ap" /\ (CallbackReq \/ FollowReq)

\* The responses a handler gives after the join: the success outcome or the
\* follow page of /callback, either verification verdict of /follow.
IsGateOutcome ==
    \/ CallbackReq /\ (IsSuccess \/ resp = Page("follow page"))
    \/ FollowReq /\ resp.kind = "json"
                 /\ resp.to \in {"success", "Failed to verify follows"}

\* The response of the handler's catch block.
IsErrorOutcome ==
    \/ CallbackReq /\ resp.kind = "redirect" /\ resp.to = "/?error=auth_error"
    \/ FollowReq /\ resp.kind = "json" /\ resp.to = "Failed to follow"

\* C23: in /callback and /follow of the artist+playlist deployment, while
\* only one of the two follow-status queries has returned no response
\* exists; a success, follow-page or verification response exists only when
\* both have returned; once both have returned and the request has ended,
\* success was granted exactly when both answers were true, whichever query
\* returned first; and when either query has failed the request has ended
\* in the error outcome of the catch block.
C23_ChecksJoinedBeforeGate ==
    JoinReq =>
        /\ IsGateOutcome => \A c \in FollowChecks : Returned(c)
        /\ (\E c \in FollowChecks : Pending(c)) /\ pc # "done" => resp = NoResp
        /\ (pc = "done" /\ \A c \in FollowChecks : Returned(c)) =>
              /\ (CallbackReq => (IsSuccess <=> \A c \in FollowChecks : AnsOf(c) = "true"))
              /\ (FollowReq => /\ IsGateOutcome
                               /\ resp.to = "success"
                                    <=> \A c \in FollowChecks : AnsOf(c) = "true")
        /\ (\E c \in FollowChecks : AnsOf(c) = "fail") => (pc = "done" /\ IsErrorOutcome)

\* The playlist query has returned first and the handler waits for the
\* artist query.
C23_Witness ==
    /\ JoinReq
    /\ pc \in {"checks", "verify"}
    /\ Returned("playlistCheck")
    /\ Pending("artistCheck")
    /\ resp = NoResp

\* C24: a /callback request of any deployment issues no PUT, and outside a
\* /follow request (before any request, in /login and in /callback) the
\* user's follow state on the remote service is what it was when the
\* request arrived.
C24_CallbackReadOnly ==
    /\ CallbackReq => \A i \in DOMAIN calls : Method(calls[i].call) # "put"
    /\ ~FollowReq => follows = followsBefore

\* A /callback of the redirect deployment has asked about a user who does
\* not follow the artist, and the user still does not.
C24_Witness ==
    /\ CallbackDone
    /\ variant = "redirect"
    /\ AnsOf("artistCheck") = "false"
    /\ ~follows["artist"]
    /\ follows = followsBefore

\* The first step of a handler: the request arrives.
RequestArrives == Login \/ CallbackSingle \/ CallbackAP \/ FollowStart

\* C25: a request that has ended has a response and a request that awaits a
\* call has none; a response is only ever sent by the step that ends the
\* request; and from then until the next request arrives the response stays
\* as sent, the request stays ended and no call is issued.
C25_ExactlyOneResponse ==
    /\ [](pc = "done" => resp # NoResp)
    /\ [](Awaiting => resp = NoResp)
    /\ [][~RequestArrives =>
            /\ resp' # resp => (resp = NoResp /\ pc' = "done")
            /\ pc = "done" => /\ pc' = "done"
                              /\ resp' = resp
                              /\ Len(calls') = Len(calls)]_vars

\* Both verification queries of a /follow request were rejected: the first
\* rejection answered the request, the second arrived after the response.
C25_Witness ==
    /\ FollowDone
    /\ AnsOf("artistCheck") = "fail"
    /\ AnsOf("playlistCheck") = "fail"
    /\ resp.kind = "json" /\ resp.to = "Failed to follow"
====
